---- MODULE Spec2Model ----
(***************************************************************************)
(* ParkPulse: the tiled vehicle detector (parkpulse/detect.py), the two    *)
(* capacity estimators (parkpulse/estimate.py) and the reliability-gated   *)
(* blending of the per-area loop (app.py).                                 *)
(*                                                                         *)
(* Numbers that are floats in the program are exact rationals <<n, d>>     *)
(* with d > 0 here; float rounding of a quotient is not modelled.          *)
(* Confidences are in hundredths; a class is its lower-cased name.         *)
(*                                                                         *)
(*   Spec     one iteration of the per-area loop: detect_cars on the       *)
(*            area's image, then the estimate from its detections          *)
(*   SpecNms  the global NMS of detect_cars on given box lists             *)
(*   SpecFilter  the global NMS and the filters on given box lists         *)
(*   SpecEst  the loop body on given detection counts and areas, over the  *)
(*            areas of one run: the estimators, the blending, the totals   *)
(*                                                                         *)
(* Not modelled: geocoding, the OSM query, the imagery fetch and its       *)
(* failure (the area is skipped), the confidence label, the uncertainty    *)
(* band and the drawing.                                                   *)
(***************************************************************************)
EXTENDS Integers, Sequences, FiniteSets, TLC

VARIABLES
    \* ---- per-area loop of app.py ----
    pc,               \* "area", "detect", "estimate", "finished", "raised"
    area_i,           \* index i of the area the loop is at (areas done so far)
    occupancy,        \* assumed occupancy, a rational
    m2_per_spot,      \* parameter of estimate_spots_from_area (30.0 by default)
    n_cars,           \* len(detections) of the last area
    area_m2,          \* area of the last area, m2
    spots_from_cars,
    spots_from_area,
    coverage,         \* rational
    weight_cars,      \* rational
    combined,
    reliability,      \* "Unreliable" | "Blended" | "none" before the first area
    capacity,
    occupied,
    free_spots,
    total_cars,
    total_capacity,
    total_free,
    results,          \* the estimates shown so far, one record per finished area
    n_areas,          \* len(gdf_sorted)
    \* ---- detect_cars ----
    img_h, img_w,     \* shape of the image passed in
    upscale_small,
    tile,
    overlap,
    det,              \* "idle", "tiles", "nms", "filter", "again", "returned", "raised"
    y0, x0,           \* the tile loop's position
    tiles,            \* the windows visited so far, one model.predict call each
    all_boxes,        \* boxes collected from the tiles, in upscaled mosaic space
    keep,             \* indices kept by the global NMS
    keep2,            \* indices kept by a second NMS over the kept boxes
    detections,       \* what the caller holds after the detection block
    det_failed,       \* the detection block's except clause has run
    stages            \* the steps of detect_cars executed so far in this run

det_vars == <<img_h, img_w, upscale_small, tile, overlap, det, y0, x0, tiles,
              all_boxes, keep, keep2, detections, det_failed, stages>>

area_vars == <<pc, area_i, n_areas, occupancy, m2_per_spot, n_cars, area_m2, spots_from_cars,
               spots_from_area, coverage, weight_cars, combined, reliability,
               capacity, occupied, free_spots, total_cars, total_capacity,
               total_free, results>>

vars == <<area_vars, det_vars>>

----------------------------------------------------------------------------
(* Bounds of the model *)

MaxCars == 3
MaxSpotsArea == 3
MaxImg == 2
MaxTile == 3
MaxOverlap == 2
MaxDet == 2
MaxNms == 3

----------------------------------------------------------------------------
(* Rationals <<n, d>>, d > 0 *)

Max(a, b) == IF a >= b THEN a ELSE b
Min(a, b) == IF a <= b THEN a ELSE b
Abs(a) == IF a < 0 THEN -a ELSE a

RECURSIVE GCD(_, _)
GCD(a, b) == IF b = 0 THEN a ELSE GCD(b, a % b)

Rat(n, d) ==
    LET g == GCD(Abs(n), d) IN <<n \div g, d \div g>>

RInt(i) == <<i, 1>>
RLess(a, b) == a[1] * b[2] < b[1] * a[2]
RLeq(a, b) == a[1] * b[2] <= b[1] * a[2]
RSub(a, b) == Rat(a[1] * b[2] - b[1] * a[2], a[2] * b[2])
RAdd(a, b) == Rat(a[1] * b[2] + b[1] * a[2], a[2] * b[2])
RMul(a, b) == Rat(a[1] * b[1], a[2] * b[2])
\* a / b for b > 0
RDiv(a, b) == Rat(a[1] * b[2], a[2] * b[1])
RMax(a, b) == IF RLess(a, b) THEN b ELSE a
RMin(a, b) == IF RLess(b, a) THEN b ELSE a
RFloor(a) == a[1] \div a[2]
\* math.ceil
RCeil(a) == -((-a[1]) \div a[2])
\* Python's round(): to the nearest integer, a tie to the even one
RRound(a) ==
    LET f == RFloor(a)
        twice == 2 * (a[1] - f * a[2])      \* 2 * fractional part * a[2]
    IN  IF twice < a[2] THEN f
        ELSE IF twice > a[2] THEN f + 1
        ELSE IF f % 2 = 0 THEN f ELSE f + 1

----------------------------------------------------------------------------
(* parkpulse/estimate.py *)

Raise == [raised |-> TRUE]
Return(v) == [raised |-> FALSE, value |-> v]

\* mutant: the floor at n_cars and the ceiling are lost (floor division)
estimate_spots_from_cars_floor(n, occ) ==
    IF ~RLess(RInt(0), occ) \/ RLess(RInt(1), occ) THEN Raise
    ELSE IF n < 0 THEN Raise
    ELSE Return(RFloor(RDiv(RInt(n), occ)) - (IF n > 0 THEN 1 ELSE 0))

\* mutant: the range checks are missing for occupancy > 1
estimate_spots_from_cars_nocheck(n, occ) ==
    IF ~RLess(RInt(0), occ) THEN Raise
    ELSE IF n < 0 THEN Raise
    ELSE Return(Max(n, RCeil(RDiv(RInt(n), occ))))

estimate_spots_from_cars(n, occ) ==
    IF ~RLess(RInt(0), occ) \/ RLess(RInt(1), occ) THEN Raise
    ELSE IF n < 0 THEN Raise
    ELSE Return(Max(n, RCeil(RDiv(RInt(n), occ))))

\* mutant: rounds up instead of down
estimate_spots_from_area_ceil(a, m) ==
    IF m <= 0 THEN Raise
    ELSE IF a < 0 THEN Raise
    ELSE Return(Max(0, -((-a) \div m)))

estimate_spots_from_area(a, m) ==
    IF m <= 0 THEN Raise
    ELSE IF a < 0 THEN Raise
    ELSE Return(Max(0, a \div m))

----------------------------------------------------------------------------
(* app.py: policy constants and the body of the per-area loop *)

min_coverage == <<1, 20>>
blend_strength == <<6, 10>>
Epsilon == <<1, 1000000>>
DefaultM2PerSpot == 30

\* number of largest areas analysed: the slider's default
k == 2

\* mutant: the coverage test of the gate is lost
UnreliableZeroOnly(n, cov) == n = 0

\* the gate of line 249
Unreliable(n, cov) == n = 0 \/ RLess(cov, min_coverage)

CoverageOf(n, sfa) == IF sfa > 0 THEN Rat(n, sfa) ELSE RInt(0)

RampOf(cov, occ) ==
    LET denom == RMax(Epsilon, RSub(occ, min_coverage))
    IN  RMin(RInt(1), RMax(RInt(0), RDiv(RSub(cov, min_coverage), denom)))

\* mutant: the ramp is not clamped at 1
WeightCarsUnclamped(n, cov, occ) ==
    IF Unreliable(n, cov) THEN RInt(0)
    ELSE LET denom == RMax(Epsilon, RSub(occ, min_coverage))
         IN  RMul(blend_strength,
                  RMax(RInt(0), RDiv(RSub(cov, min_coverage), denom)))

\* mutant: the ramp starts at coverage 0 instead of at min_coverage
WeightCarsNoOffset(n, cov, occ) ==
    IF Unreliable(n, cov) THEN RInt(0)
    ELSE RMul(blend_strength, RMin(RInt(1), RMax(RInt(0), RDiv(cov, occ))))

WeightCars(n, cov, occ) ==
    IF Unreliable(n, cov) THEN RInt(0)
    ELSE RMul(blend_strength, RampOf(cov, occ))

Combined(n, cov, occ, sfa, sfc) ==
    IF Unreliable(n, cov) THEN sfa
    ELSE LET w == WeightCars(n, cov, occ)
         IN  RRound(RAdd(RMul(RSub(RInt(1), w), RInt(sfa)), RMul(w, RInt(sfc))))

\* mutant: the free spots are not clamped at 0
FreeSpotsUnclamped(cap, occd) == cap - occd

\* line 264
FreeSpots(cap, occd) == Max(0, cap - occd)

----------------------------------------------------------------------------
(* parkpulse/detect.py *)

VEHICLE_CLASS_NAMES == {"car", "van", "truck", "bus", "motor"}
iou_threshold == <<7, 20>>
UpscaleBelow == 2048

\* scale of lines 74-76
ScaleOf(h, w, up) == IF up /\ Min(h, w) < UpscaleBelow THEN 2 ELSE 1

\* mutant: the overlap is added to the stride instead of subtracted
StepOfSum(t, o) == Max(1, t + o)

\* line 85
StepOf(t, o) == Max(1, t - o)

\* Number of rows of a[lo:hi] for an axis of length n and 0 <= lo < n: a
\* negative hi counts from the end.
SliceLen(lo, hi, n) ==
    LET stop == IF hi < 0 THEN Max(0, hi + n) ELSE Min(hi, n)
    IN  Max(0, stop - lo)

\* lines 93-95: the window at origin (x, y) of an H x W image
WindowAt(x, y, H, W, t) ==
    LET wy1 == Min(y + t, H)
        wx1 == Min(x + t, W)
    IN  [x0 |-> x, y0 |-> y, x1 |-> wx1, y1 |-> wy1,
         pw |-> SliceLen(x, wx1, W), ph |-> SliceLen(y, wy1, H)]

\* lines 114-115
Shift(b, x, y) == <<b[1] + x, b[2] + y, b[3] + x, b[4] + y>>

BoxArea(b) == (b[3] - b[1]) * (b[4] - b[2])
Inter(a, b) ==
    Max(0, Min(a[3], b[3]) - Max(a[1], b[1]))
      * Max(0, Min(a[4], b[4]) - Max(a[2], b[2]))
\* inter / (area_a + area_b - inter) > iou_threshold
IoUExceeds(a, b) ==
    Inter(a, b) * iou_threshold[2]
        > iou_threshold[1] * (BoxArea(a) + BoxArea(b) - Inter(a, b))
IoUAtLeast(a, b) ==
    /\ BoxArea(a) + BoxArea(b) - Inter(a, b) > 0
    /\ Inter(a, b) * iou_threshold[2]
          >= iou_threshold[1] * (BoxArea(a) + BoxArea(b) - Inter(a, b))

\* indices of dets by decreasing score, equal scores in input order
RECURSIVE InsertByScore(_, _, _)
InsertByScore(order, i, dets) ==
    IF order = <<>> THEN <<i>>
    ELSE IF dets[Head(order)].score >= dets[i].score
         THEN <<Head(order)>> \o InsertByScore(Tail(order), i, dets)
         ELSE <<i>> \o order

RECURSIVE ScoreOrder(_, _)
ScoreOrder(dets, n) ==
    IF n = 0 THEN <<>> ELSE InsertByScore(ScoreOrder(dets, n - 1), n, dets)

RECURSIVE NmsFrom(_, _, _)
NmsFrom(order, kept, dets) ==
    IF order = <<>> THEN kept
    ELSE LET i == Head(order)
         IN  IF \E m \in 1..Len(kept) : IoUExceeds(dets[kept[m]].box, dets[i].box)
             THEN NmsFrom(Tail(order), kept, dets)
             ELSE NmsFrom(Tail(order), Append(kept, i), dets)

RECURSIVE NmsFromGeq(_, _, _)
NmsFromGeq(order, kept, dets) ==
    IF order = <<>> THEN kept
    ELSE LET i == Head(order)
         IN  IF \E m \in 1..Len(kept) : IoUAtLeast(dets[kept[m]].box, dets[i].box)
             THEN NmsFromGeq(Tail(order), kept, dets)
             ELSE NmsFromGeq(Tail(order), Append(kept, i), dets)

RECURSIVE NmsFromPrev(_, _, _, _)
NmsFromPrev(order, prev, kept, dets) ==
    IF order = <<>> THEN kept
    ELSE LET i == Head(order)
         IN  IF prev # 0 /\ IoUExceeds(dets[prev].box, dets[i].box)
             THEN NmsFromPrev(Tail(order), i, kept, dets)
             ELSE NmsFromPrev(Tail(order), i, Append(kept, i), dets)

\* mutant: a box is suppressed at IoU >= threshold
NmsGeq(dets) == NmsFromGeq(ScoreOrder(dets, Len(dets)), <<>>, dets)

\* mutant: a box is compared with the box before it in score order only
NmsPrevOnly(dets) == NmsFromPrev(ScoreOrder(dets, Len(dets)), 0, <<>>, dets)

\* line 131, torchvision.ops.nms: greedy, by decreasing score; the indices
\* kept, in decreasing order of score
Nms(dets) == NmsFrom(ScoreOrder(dets, Len(dets)), <<>>, dets)

\* int() of a float: towards zero
Trunc(r) == IF r[1] >= 0 THEN RFloor(r) ELSE RCeil(r)

\* mutant: a box of exactly 160 pixels is dropped
PassesFiltersBelow160(d, s) ==
    LET w == Rat(d.box[3] - d.box[1], s)
        h == Rat(d.box[4] - d.box[2], s)
        area == RMul(w, h)
        aspect == RDiv(w, RMax(RInt(1), h))
    IN  /\ d.cls_name \in VEHICLE_CLASS_NAMES
        /\ ~(RLess(w, RInt(6)) \/ RLess(h, RInt(6)))
        /\ ~(RLeq(RInt(160), w) \/ RLeq(RInt(160), h))
        /\ ~RLess(RInt(160 * 160), area)
        /\ ~(RLess(aspect, <<1, 4>>) \/ RLess(RInt(4), aspect))

\* lines 137-166: whether the kept box d is appended to out
PassesFilters(d, s) ==
    LET w == Rat(d.box[3] - d.box[1], s)
        h == Rat(d.box[4] - d.box[2], s)
        area == RMul(w, h)
        aspect == RDiv(w, RMax(RInt(1), h))
    IN  /\ d.cls_name \in VEHICLE_CLASS_NAMES
        /\ ~(RLess(w, RInt(6)) \/ RLess(h, RInt(6)))
        /\ ~(RLess(RInt(160), w) \/ RLess(RInt(160), h))
        /\ ~RLess(RInt(160 * 160), area)
        /\ ~(RLess(aspect, <<1, 4>>) \/ RLess(RInt(4), aspect))

\* mutant: the coordinates are divided by scale a second time
OutDetDividedTwice(d, s) ==
    [x1 |-> Trunc(Rat(d.box[1], s * s)), y1 |-> Trunc(Rat(d.box[2], s * s)),
     x2 |-> Trunc(Rat(d.box[3], s * s)), y2 |-> Trunc(Rat(d.box[4], s * s)),
     conf |-> d.score, cls_name |-> d.cls_name]

\* lines 168-178
OutDet(d, s) ==
    [x1 |-> Trunc(Rat(d.box[1], s)), y1 |-> Trunc(Rat(d.box[2], s)),
     x2 |-> Trunc(Rat(d.box[3], s)), y2 |-> Trunc(Rat(d.box[4], s)),
     conf |-> d.score, cls_name |-> d.cls_name]

\* lines 135-180: the loop over keep
RECURSIVE FilterKept(_, _, _)
FilterKept(dets, kp, s) ==
    IF kp = <<>> THEN <<>>
    ELSE LET d == dets[Head(kp)]
         IN  (IF PassesFilters(d, s) THEN <<OutDet(d, s)>> ELSE <<>>)
                 \o FilterKept(dets, Tail(kp), s)

\* lines 135-178 as the steps taken for each kept box i, in the order of the
\* code: the class test, the division by scale (when scale != 1.0), the size
\* and aspect tests, the append to out
RECURSIVE FilterStages(_, _, _)
FilterStages(dets, kp, s) ==
    IF kp = <<>> THEN <<>>
    ELSE LET i == Head(kp)
             d == dets[i]
         IN  <<[op |-> "class", i |-> i]>>
             \o (IF d.cls_name \in VEHICLE_CLASS_NAMES
                 THEN (IF s # 1 THEN <<[op |-> "divide", i |-> i]>> ELSE <<>>)
                      \o <<[op |-> "size", i |-> i]>>
                      \o (IF PassesFilters(d, s)
                          THEN <<[op |-> "append", i |-> i]>> ELSE <<>>)
                 ELSE <<>>)
             \o FilterStages(dets, Tail(kp), s)

\* mutant: the boxes collected before the failure are still used
DetectionsOnFailureKept(boxes, s) == FilterKept(boxes, Nms(boxes), s)

\* app.py lines 218-220: the except clause of the detection block
DetectionsOnFailure(boxes, s) == <<>>

----------------------------------------------------------------------------
(* Inputs of detect_cars *)

\* the defaults of app.py
BigTile == 1024
BigOverlap == 256
DefaultOccupancy == <<6, 10>>

\* detect_cars is called with any tile and overlap here, as the package
\* exports it: sizes of a few pixels, tile <= 0 and overlap >= tile included,
\* besides the app's defaults

TileConfigs == ((-1..MaxTile) \X (0..MaxOverlap)) \cup {<<BigTile, BigOverlap>>}
SmallImages == (1..MaxImg) \X (1..MaxImg)
LargeImages == {<<2048, 2048>>, <<512, 512>>}
\* the image sizes tried with a tile size: pixel-sized ones with the small
\* tiles, full-size ones with the tile size of the app
ImagesFor(t) == IF t >= BigTile THEN LargeImages ELSE SmallImages

\* areas of the polygon the image shows
DetectAreas == {0, DefaultM2PerSpot, 1800}

\* what model.predict may return for a patch: at most one of these boxes,
\* in patch coordinates, when it lies inside the patch
Candidates ==
    { [box |-> <<800, 100, 840, 120>>, score |-> 80, cls_name |-> "car"],
      [box |-> <<30, 100, 230, 200>>, score |-> 60, cls_name |-> "car"],
      [box |-> <<400, 400, 440, 420>>, score |-> 90, cls_name |-> "pedestrian"] }
CandidatesFor(w) == {c \in Candidates : c.box[3] <= w.pw /\ c.box[4] <= w.ph}

\* detection lists handed to the deduplicator alone
NmsBoxes == { <<0, 0, 30, 10>>, <<10, 0, 40, 10>>, <<20, 0, 50, 10>>,
              <<0, 0, 27, 10>>, <<13, 0, 40, 10>> }
NmsCandidates ==
    { [box |-> b, score |-> sc, cls_name |-> "car", tile |-> 1] :
          b \in NmsBoxes, sc \in {60, 80} }
NmsInputs == UNION { [1..n -> NmsCandidates] : n \in 1..MaxNms }

H == img_h * ScaleOf(img_h, img_w, upscale_small)
W == img_w * ScaleOf(img_h, img_w, upscale_small)
scale == ScaleOf(img_h, img_w, upscale_small)
step == StepOf(tile, overlap)

InitDetIdle ==
    /\ img_h = 1 /\ img_w = 1
    /\ det = "idle"
    /\ y0 = 0 /\ x0 = 0
    /\ tiles = <<>>
    /\ all_boxes = <<>>
    /\ keep = <<>>
    /\ keep2 = <<>>
    /\ detections = <<>>
    /\ det_failed = FALSE
    /\ stages = <<>>

\* app.py lines 193-217: the image is fetched and detect_cars is entered
\* (lines 66-89)
StartDetect ==
    /\ pc = "area"
    /\ area_i < n_areas
    /\ \E im \in ImagesFor(tile) : img_h' = im[1] /\ img_w' = im[2]
    /\ pc' = "detect"
    /\ det' = "tiles"
    /\ y0' = 0 /\ x0' = 0
    /\ tiles' = <<>>
    /\ all_boxes' = <<>>
    /\ keep' = <<>>
    /\ detections' = <<>>
    /\ det_failed' = FALSE
    /\ stages' = <<>>
    /\ UNCHANGED <<upscale_small, tile, overlap, keep2>>
    /\ UNCHANGED <<area_i, n_areas, occupancy, m2_per_spot, n_cars, area_m2,
                   spots_from_cars, spots_from_area, coverage, weight_cars,
                   combined, reliability, capacity, occupied, free_spots,
                   total_cars, total_capacity, total_free, results>>

AreaUnchanged ==
    UNCHANGED <<area_i, n_areas, occupancy, m2_per_spot, n_cars, area_m2,
                spots_from_cars, spots_from_area, coverage, weight_cars,
                combined, reliability, capacity, occupied, free_spots,
                total_cars, total_capacity, total_free, results>>

InTileLoop == pc = "detect" /\ det = "tiles" /\ y0 < H

\* lines 91-92: the loops' next position, and lines 121-122 after the last tile
Advance(boxes) ==
    LET nx == x0 + step
        ny == IF nx < W THEN y0 ELSE y0 + step
    IN  /\ x0' = (IF nx < W THEN nx ELSE 0)
        /\ y0' = ny
        /\ IF ny < H
           THEN det' = "tiles" /\ pc' = "detect" /\ detections' = detections
           ELSE IF boxes = <<>>
                THEN det' = "returned" /\ pc' = "estimate" /\ detections' = <<>>
                ELSE det' = "nms" /\ pc' = "detect" /\ detections' = detections

\* lines 93-107: model.predict returns no box for the patch
TileEmpty ==
    /\ InTileLoop
    /\ tiles' = Append(tiles, WindowAt(x0, y0, H, W, tile))
    /\ stages' = Append(stages, [op |-> "predict", i |-> Len(tiles) + 1])
    /\ Advance(all_boxes)
    /\ UNCHANGED <<img_h, img_w, upscale_small, tile, overlap, all_boxes, keep,
                   keep2, det_failed>>
    /\ AreaUnchanged

\* lines 93-119: model.predict returns the box c for the patch
TileBox(c) ==
    /\ InTileLoop
    /\ Len(all_boxes) < MaxDet
    /\ c \in CandidatesFor(WindowAt(x0, y0, H, W, tile))
    /\ tiles' = Append(tiles, WindowAt(x0, y0, H, W, tile))
    /\ all_boxes' = Append(all_boxes,
                           [box |-> Shift(c.box, x0, y0), score |-> c.score,
                            cls_name |-> c.cls_name, tile |-> Len(tiles) + 1])
    /\ stages' = stages \o <<[op |-> "predict", i |-> Len(tiles) + 1],
                             [op |-> "shift", i |-> Len(tiles) + 1]>>
    /\ Advance(all_boxes')
    /\ UNCHANGED <<img_h, img_w, upscale_small, tile, overlap, keep, keep2,
                   det_failed>>
    /\ AreaUnchanged

\* lines 97-104 raise: detect_cars is left, and the except clause of app.py
\* (lines 218-220) sets detections
TileRaises ==
    /\ InTileLoop
    /\ tiles' = Append(tiles, WindowAt(x0, y0, H, W, tile))
    /\ det' = "raised"
    /\ det_failed' = TRUE
    /\ stages' = Append(stages, [op |-> "predict", i |-> Len(tiles) + 1])
    /\ detections' = DetectionsOnFailure(all_boxes, scale)
    /\ pc' = "estimate"
    /\ UNCHANGED <<img_h, img_w, upscale_small, tile, overlap, y0, x0, all_boxes,
                   keep, keep2>>
    /\ AreaUnchanged

\* lines 124-131
Dedupe ==
    /\ pc = "detect"
    /\ det = "nms"
    /\ keep' = Nms(all_boxes)
    /\ stages' = Append(stages, [op |-> "nms", i |-> 0])
    /\ det' = "filter"
    /\ UNCHANGED <<pc, img_h, img_w, upscale_small, tile, overlap, y0, x0, tiles,
                   all_boxes, keep2, detections, det_failed>>
    /\ AreaUnchanged

\* lines 133-180, and the assignment of app.py line 210
FilterAndReturn ==
    /\ pc = "detect"
    /\ det = "filter"
    /\ detections' = FilterKept(all_boxes, keep, scale)
    /\ stages' = stages \o FilterStages(all_boxes, keep, scale)
    /\ det' = "returned"
    /\ pc' = "estimate"
    /\ UNCHANGED <<img_h, img_w, upscale_small, tile, overlap, y0, x0, tiles,
                   all_boxes, keep, keep2, det_failed>>
    /\ AreaUnchanged

\* the deduplicator applied to its own output
DedupeAgain ==
    /\ pc = "detect"
    /\ det = "filter"
    /\ keep2' = Nms([m \in 1..Len(keep) |-> all_boxes[keep[m]]])
    /\ stages' = Append(stages, [op |-> "nms", i |-> 0])
    /\ det' = "again"
    /\ UNCHANGED <<pc, img_h, img_w, upscale_small, tile, overlap, y0, x0, tiles,
                   all_boxes, keep, detections, det_failed>>
    /\ AreaUnchanged

----------------------------------------------------------------------------
(* Inputs of the per-area loop *)

\* The estimators are called with any argument here, as the package exports
\* them. Occupancy in tenths 0.0 .. 1.1: the slider of app.py gives 0.3 .. 0.9,
\* and 0.0 and 1.1 are outside the estimator's domain. m2_per_spot is the
\* second parameter of estimate_spots_from_area, which app.py leaves at its
\* default.
OccupancyValues == {Rat(t, 10) : t \in 0..11}
M2PerSpotValues == {-1, 0, 7, DefaultM2PerSpot}
CarCounts == (-1..MaxCars) \cup {40}
Areas == {-1, 10}
         \cup {DefaultM2PerSpot * j : j \in 0..MaxSpotsArea}
         \cup {DefaultM2PerSpot * j + 29 : j \in 0..MaxSpotsArea}
         \cup {1800}

InitAreaIdle ==
    /\ area_i = 0
    /\ n_cars = 0
    /\ area_m2 = 0
    /\ spots_from_cars = 0
    /\ spots_from_area = 0
    /\ coverage = RInt(0)
    /\ weight_cars = RInt(0)
    /\ combined = 0
    /\ reliability = "none"
    /\ capacity = 0
    /\ occupied = 0
    /\ free_spots = 0
    /\ total_cars = 0
    /\ total_capacity = 0
    /\ total_free = 0
    /\ results = <<>>

\* Lines 222-224 raise for n detections and area a: the exception leaves the
\* loop and the script run ends.
AreaRaises(n, a) ==
    /\ area_i < n_areas
    /\ \/ estimate_spots_from_cars(n, occupancy).raised
       \/ estimate_spots_from_area(a, m2_per_spot).raised
    /\ pc' = "raised"
    /\ n_cars' = n
    /\ area_m2' = a
    /\ spots_from_cars' = IF estimate_spots_from_cars(n, occupancy).raised
                          THEN spots_from_cars
                          ELSE estimate_spots_from_cars(n, occupancy).value
    /\ UNCHANGED <<area_i, n_areas, occupancy, m2_per_spot, spots_from_area,
                   coverage, weight_cars, combined, reliability, capacity, occupied,
                   free_spots, total_cars, total_capacity, total_free, results>>

\* Lines 222-270 for one area with n detections and area a.
AreaEstimate(n, a) ==
    /\ area_i < n_areas
    /\ ~estimate_spots_from_cars(n, occupancy).raised
    /\ ~estimate_spots_from_area(a, m2_per_spot).raised
    /\ LET sfc == estimate_spots_from_cars(n, occupancy).value
           sfa == estimate_spots_from_area(a, m2_per_spot).value
           cov == CoverageOf(n, sfa)
           w   == WeightCars(n, cov, occupancy)
           cmb == Combined(n, cov, occupancy, sfa, sfc)
           cap == Max(0, cmb)
           occd == Max(0, n)
           free == FreeSpots(cap, occd)
       IN  /\ n_cars' = n
           /\ area_m2' = a
           /\ spots_from_cars' = sfc
           /\ spots_from_area' = sfa
           /\ coverage' = cov
           /\ weight_cars' = w
           /\ combined' = cmb
           /\ reliability' = IF Unreliable(n, cov) THEN "Unreliable" ELSE "Blended"
           /\ capacity' = cap
           /\ occupied' = occd
           /\ free_spots' = free
           /\ total_cars' = total_cars + occd
           /\ total_capacity' = total_capacity + cap
           /\ total_free' = total_free + free
           /\ results' = Append(results, [n_cars |-> n, area_m2 |-> a,
                                          spots_from_area |-> sfa,
                                          capacity |-> cap, free_spots |-> free])
    /\ area_i' = area_i + 1
    /\ pc' = "area"
    /\ UNCHANGED <<n_areas, occupancy, m2_per_spot>>

\* The loop over gdf_sorted is exhausted: the totals are shown.
Finish ==
    /\ pc = "area"
    /\ area_i = n_areas
    /\ pc' = "finished"
    /\ UNCHANGED <<area_i, n_areas, occupancy, m2_per_spot, n_cars, area_m2,
                   spots_from_cars, spots_from_area, coverage, weight_cars,
                   combined, reliability, capacity, occupied, free_spots,
                   total_cars, total_capacity, total_free, results>>
    /\ UNCHANGED det_vars

----------------------------------------------------------------------------
(* The loop body on given detection counts: the estimators and the blending *)

InitEst ==
    /\ pc = "area"
    /\ InitAreaIdle
    /\ InitDetIdle
    /\ n_areas \in 1..k
    /\ occupancy \in OccupancyValues
    /\ m2_per_spot \in M2PerSpotValues
    /\ upscale_small = TRUE
    /\ tile = BigTile
    /\ overlap = BigOverlap

\* gdf_sorted is sorted by area_m2, descending: the next area is no larger.
NextEst ==
    \/ \E n \in CarCounts, a \in Areas :
          /\ pc = "area"
          /\ (area_i > 0 => a <= area_m2)
          /\ AreaRaises(n, a)
          /\ UNCHANGED det_vars
    \/ \E n \in CarCounts, a \in Areas :
          /\ pc = "area"
          /\ (area_i > 0 => a <= area_m2)
          /\ AreaEstimate(n, a)
          /\ UNCHANGED det_vars
    \/ Finish

SpecEst == InitEst /\ [][NextEst]_vars

----------------------------------------------------------------------------
(* One area from the image to the estimate *)

Init ==
    /\ pc = "area"
    /\ InitAreaIdle
    /\ InitDetIdle
    /\ n_areas = 1
    /\ occupancy = DefaultOccupancy
    /\ m2_per_spot = DefaultM2PerSpot
    /\ upscale_small \in BOOLEAN
    /\ \E tc \in TileConfigs : tile = tc[1] /\ overlap = tc[2]

\* app.py lines 222-270 on the detections of the area; the estimators cannot
\* raise here: occupancy is in (0, 1], len(detections) >= 0 and area_m2 >= 0
EstimateDetected ==
    /\ pc = "estimate"
    /\ \E a \in DetectAreas : AreaEstimate(Len(detections), a)
    /\ UNCHANGED det_vars

Next ==
    \/ StartDetect
    \/ TileEmpty
    \/ \E c \in Candidates : TileBox(c)
    \/ TileRaises
    \/ Dedupe
    \/ FilterAndReturn
    \/ EstimateDetected

Spec == Init /\ [][Next]_vars

----------------------------------------------------------------------------
(* The deduplicator on its own *)

InitNms ==
    /\ InitAreaIdle
    /\ n_areas = 1
    /\ occupancy = DefaultOccupancy
    /\ m2_per_spot = DefaultM2PerSpot
    /\ upscale_small = TRUE
    /\ tile = BigTile
    /\ overlap = BigOverlap
    /\ img_h = 2048 /\ img_w = 2048
    /\ pc = "detect"
    /\ det = "nms"
    /\ y0 = 2048 /\ x0 = 0
    /\ tiles = <<>>
    /\ all_boxes \in NmsInputs
    /\ keep = <<>>
    /\ keep2 = <<>>
    /\ detections = <<>>
    /\ det_failed = FALSE
    /\ stages = <<>>

NextNms == Dedupe \/ DedupeAgain

SpecNms == InitNms /\ [][NextNms]_vars

----------------------------------------------------------------------------
(* The deduplication and the filters on given boxes *)

\* widths and heights, in upscaled pixels, on both sides of the thresholds of
\* the filters at scale 1 and at scale 2
FilterDims == {5, 6, 11, 12, 24, 25, 48, 50, 160, 161, 320, 321}
FilterCandidates ==
    { [box |-> <<0, 0, w, h>>, score |-> 60, cls_name |-> c, tile |-> 1] :
          w \in FilterDims, h \in FilterDims, c \in {"car", "bus", "pedestrian"} }
\* a second box away from the first one, of higher confidence
FilterCompanions ==
    { [box |-> <<400, 400, 440, 420>>, score |-> 90, cls_name |-> c, tile |-> 1] :
          c \in {"car", "pedestrian"} }
FilterInputs ==
    {<<c>> : c \in FilterCandidates}
        \cup {<<c, d>> : c \in FilterCandidates, d \in FilterCompanions}

\* detect_cars after the tile loop on a 512 x 512 image, upscaled or not
InitFilter ==
    /\ InitAreaIdle
    /\ n_areas = 1
    /\ occupancy = DefaultOccupancy
    /\ m2_per_spot = DefaultM2PerSpot
    /\ upscale_small \in BOOLEAN
    /\ tile = BigTile
    /\ overlap = BigOverlap
    /\ img_h = 512 /\ img_w = 512
    /\ pc = "detect"
    /\ det = "nms"
    /\ y0 = H /\ x0 = 0
    /\ tiles = <<>>
    /\ all_boxes \in FilterInputs
    /\ keep = <<>>
    /\ keep2 = <<>>
    /\ detections = <<>>
    /\ det_failed = FALSE
    /\ stages = <<>>

NextFilter == Dedupe \/ FilterAndReturn

SpecFilter == InitFilter /\ [][NextFilter]_vars

----------------------------------------------------------------------------
(* Properties of the estimators and of the blending (SpecEst) *)

ValidOccupancy == RLess(RInt(0), occupancy) /\ RLeq(occupancy, RInt(1))
\* an area has been put through lines 222-224
Attempted == pc = "raised" \/ area_i >= 1
\* the last area went through the whole loop body
Estimated == pc \in {"area", "finished"} /\ area_i >= 1

\* C1: for n_cars >= 0 and occupancy in (0, 1] the estimate from cars is
\* ceil(n_cars / occupancy) (the least integer c with c * occupancy >= n_cars),
\* floored at n_cars: it is >= n_cars, and 0 exactly when n_cars is 0.
C1_FromCars ==
    (Attempted /\ n_cars >= 0 /\ ValidOccupancy) =>
        LET c == spots_from_cars
            ceil == CHOOSE x \in 0..(n_cars * occupancy[2]) :
                       /\ x * occupancy[1] >= n_cars * occupancy[2]
                       /\ (x - 1) * occupancy[1] < n_cars * occupancy[2]
        IN  /\ c = Max(n_cars, ceil)
            /\ c >= n_cars
            /\ (c = 0 <=> n_cars = 0)

C1_Witness ==
    /\ Estimated
    /\ n_cars = 3
    /\ occupancy = <<7, 10>>
    /\ spots_from_cars = 5

\* C2: for area_m2 >= 0 and m2_per_spot > 0 the estimate from area is
\* floor(area_m2 / m2_per_spot) >= 0, and it is non-decreasing in area_m2.
C2_FromArea ==
    Estimated =>
        LET s == spots_from_area
        IN  /\ s >= 0
            /\ s * m2_per_spot <= area_m2
            /\ area_m2 < (s + 1) * m2_per_spot
            /\ \A a1 \in Areas :
                  (0 <= a1 /\ a1 <= area_m2) =>
                      estimate_spots_from_area(a1, m2_per_spot).value <= s
            /\ \A i, j \in 1..Len(results) :
                  results[i].area_m2 <= results[j].area_m2 =>
                      results[i].spots_from_area <= results[j].spots_from_area

C2_Witness ==
    /\ Estimated
    /\ Len(results) = 2
    /\ results[1].area_m2 = 89 /\ results[1].spots_from_area = 2
    /\ results[2].area_m2 = 59 /\ results[2].spots_from_area = 1

C9_Gate ==
    (Estimated /\ ( \/ n_cars = 0
                    \/ spots_from_area = 0
                    \/ n_cars * min_coverage[2] < spots_from_area * min_coverage[1])) =>
        /\ reliability = "Unreliable"
        /\ combined = spots_from_area
        /\ weight_cars = RInt(0)

C9_Witness ==
    /\ Estimated
    /\ n_cars = 2
    /\ spots_from_area = 60
    /\ reliability = "Unreliable"
    /\ spots_from_cars > spots_from_area \/ spots_from_cars < spots_from_area

\* C10: in the Blended state ramp = clamp((coverage - min_coverage) /
\* (occupancy - min_coverage), 0, 1), weight_cars = blend_strength * ramp,
\* which never exceeds blend_strength, and combined = round((1 - weight_cars) *
\* spots_from_area + weight_cars * spots_from_cars); 40 cars on 60 area spots at
\* occupancy 0.6 give weight_cars 0.6, spots_from_cars 67 and combined 64.
C10_Blend ==
    (Estimated /\ n_cars > 0 /\ spots_from_area > 0
       /\ n_cars * min_coverage[2] >= spots_from_area * min_coverage[1]) =>
        LET cov  == Rat(n_cars, spots_from_area)
            r    == RDiv(RSub(cov, min_coverage), RSub(occupancy, min_coverage))
            ramp == IF RLess(r, RInt(0)) THEN RInt(0)
                    ELSE IF RLess(RInt(1), r) THEN RInt(1) ELSE r
        IN  /\ reliability = "Blended"
            /\ weight_cars = RMul(blend_strength, ramp)
            /\ RLeq(weight_cars, blend_strength)
            /\ combined = RRound(RAdd(RMul(RSub(RInt(1), weight_cars),
                                            RInt(spots_from_area)),
                                       RMul(weight_cars, RInt(spots_from_cars))))
            /\ (n_cars = 40 /\ spots_from_area = 60 /\ occupancy = <<3, 5>>) =>
                   /\ ramp = RInt(1)
                   /\ weight_cars = <<3, 5>>
                   /\ spots_from_cars = 67
                   /\ combined = 64

C10_Witness ==
    /\ Estimated
    /\ n_cars = 40 /\ spots_from_area = 60 /\ occupancy = <<3, 5>>
    /\ reliability = "Blended"
    /\ combined = 64

----------------------------------------------------------------------------
(* Properties of detect_cars (Spec) and of the deduplicator (SpecNms) *)

\* the tile loop has just been left without an exception
TileLoopLeft ==
    \/ det = "nms"
    \/ det = "returned" /\ all_boxes = <<>> /\ pc = "estimate"

\* {0, st, 2 * st, ...} below n
Origins(n, st) == {i * st : i \in 0..((n - 1) \div st)}

\* C4: for tile > 0 and 0 <= overlap < tile the loop visits exactly the windows
\* with origins (x0, y0), x0 in {0, step, ...} below W, y0 likewise below H,
\* step = max(1, tile - overlap), each [x0, min(x0 + tile, W)) x [y0, min(y0 +
\* tile, H)): non-empty, inside the image, at most tile wide and high, and
\* together covering every pixel; 9 windows with origins in {0, 768, 1536} for
\* tile 1024, overlap 256 and a 2048 x 2048 image.
C4_Tiling ==
    (det # "idle" /\ tile > 0 /\ 0 <= overlap /\ overlap < tile) =>
        LET st == IF tile - overlap >= 1 THEN tile - overlap ELSE 1
            org == {<<tiles[i].x0, tiles[i].y0>> : i \in 1..Len(tiles)}
        IN  /\ \A i \in 1..Len(tiles) :
                  LET t == tiles[i]
                  IN  /\ t.x0 \in Origins(W, st) /\ t.y0 \in Origins(H, st)
                      /\ t.x1 = Min(t.x0 + tile, W) /\ t.y1 = Min(t.y0 + tile, H)
                      /\ 0 <= t.x0 /\ t.x0 < t.x1 /\ t.x1 <= W
                      /\ 0 <= t.y0 /\ t.y0 < t.y1 /\ t.y1 <= H
                      /\ t.pw = t.x1 - t.x0 /\ t.ph = t.y1 - t.y0
                      /\ t.pw <= tile /\ t.ph <= tile
            /\ Cardinality(org) = Len(tiles)
            /\ TileLoopLeft =>
                  /\ org = Origins(W, st) \X Origins(H, st)
                  /\ \A px \in 0..(W - 1) :
                        \E x \in Origins(W, st) : x <= px /\ px < Min(x + tile, W)
                  /\ \A py \in 0..(H - 1) :
                        \E y \in Origins(H, st) : y <= py /\ py < Min(y + tile, H)
                  /\ tile < BigTile =>
                        \A px \in 0..(W - 1), py \in 0..(H - 1) :
                            \E i \in 1..Len(tiles) :
                                /\ tiles[i].x0 <= px /\ px < tiles[i].x1
                                /\ tiles[i].y0 <= py /\ py < tiles[i].y1
                  /\ (tile = 1024 /\ overlap = 256 /\ H = 2048 /\ W = 2048) =>
                        /\ Len(tiles) = 9
                        /\ org = {0, 768, 1536} \X {0, 768, 1536}

C4_Witness ==
    /\ TileLoopLeft
    /\ tile = 1024 /\ overlap = 256
    /\ img_h = 2048 /\ img_w = 2048
    /\ Len(tiles) = 9
    /\ tiles[9].x0 = 1536 /\ tiles[9].x1 = 2048 /\ tiles[9].pw = 512

\* C5: with tile <= 0 detect_cars fails before any window is produced and
\* before model.predict is called, and returns no detection list.
C5_TileSizeRejected ==
    (det # "idle" /\ tile <= 0) =>
        /\ Len(tiles) = 0
        /\ det \notin {"nms", "filter", "returned"}

\* C6 as claimed: when model.predict raises on one tile, the boxes of the other
\* tiles are still deduplicated, filtered and counted in n_cars.
C6_FailedTileSkipped ==
    det_failed =>
        /\ Len(detections) = Len(FilterKept(all_boxes, Nms(all_boxes), scale))
        /\ (pc = "area" /\ area_i >= 1) =>
              n_cars = Len(FilterKept(all_boxes, Nms(all_boxes), scale))

\* C6 as amended: when model.predict raises on one tile, detect_cars is left at
\* that tile, the boxes collected so far are dropped, the caller goes on with
\* no detection (n_cars = 0), and the area's estimate is still produced, in the
\* Unreliable state.
C6_FailedTileEmptiesArea ==
    det_failed =>
        /\ det = "raised"
        /\ detections = <<>>
        /\ keep = <<>>
        /\ pc \in {"estimate", "area"}
        /\ pc = "estimate" => ENABLED EstimateDetected
        /\ pc = "area" =>
              /\ area_i = 1 /\ Len(results) = 1
              /\ n_cars = 0
              /\ reliability = "Unreliable"
              /\ combined = spots_from_area
              /\ weight_cars = RInt(0)

C6_Witness ==
    /\ det_failed
    /\ pc = "area" /\ area_i = 1
    /\ Len(tiles) = 2
    /\ Len(all_boxes) = 1
    /\ PassesFilters(all_boxes[1], scale)
    /\ n_cars = 0
    /\ Len(results) = 1 /\ results[1].capacity = 60

Deduped == det \in {"filter", "again"}

\* C7: the global NMS keeps a sub-collection of its input: indices of input
\* boxes, each once; no two kept boxes have IoU > 0.35; every discarded box has
\* IoU > 0.35 with a kept box of no lower confidence; of two boxes with IoU 0.5
\* and confidences 0.8 and 0.6 only the first survives.
C7_Dedupe ==
    Deduped =>
        LET N == Len(all_boxes)
            kept == {keep[m] : m \in 1..Len(keep)}
        IN  /\ kept \subseteq 1..N
            /\ Cardinality(kept) = Len(keep)
            /\ Len(keep) <= N
            /\ \A i, j \in kept :
                  i # j => ~IoUExceeds(all_boxes[i].box, all_boxes[j].box)
            /\ \A d \in (1..N) \ kept :
                  \E j \in kept :
                      /\ all_boxes[j].score >= all_boxes[d].score
                      /\ IoUExceeds(all_boxes[j].box, all_boxes[d].box)
            /\ \A i, j \in 1..N :
                  ( /\ N = 2 /\ i # j
                    /\ all_boxes[i].score = 80 /\ all_boxes[j].score = 60
                    /\ 2 * Inter(all_boxes[i].box, all_boxes[j].box)
                         = BoxArea(all_boxes[i].box) + BoxArea(all_boxes[j].box)
                             - Inter(all_boxes[i].box, all_boxes[j].box) )
                  => keep = <<i>>

C7_Witness ==
    /\ Deduped
    /\ Len(all_boxes) = 2
    /\ all_boxes[1].box = <<10, 0, 40, 10>> /\ all_boxes[1].score = 60
    /\ all_boxes[2].box = <<0, 0, 30, 10>> /\ all_boxes[2].score = 80
    /\ keep = <<2>>

\* C8: the global NMS applied to its own output keeps every box of it.
C8_Idempotent ==
    det = "again" =>
        /\ keep2 = [m \in 1..Len(keep) |-> m]
        /\ {all_boxes[keep[keep2[m]]] : m \in 1..Len(keep2)}
              = {all_boxes[keep[m]] : m \in 1..Len(keep)}

C8_Witness ==
    /\ det = "again"
    /\ Len(all_boxes) = 3
    /\ Len(keep) = 2
    /\ Len(keep2) = 2
    /\ IoUExceeds(all_boxes[keep[1]].box, all_boxes[2].box)
    /\ 2 \notin {keep[m] : m \in 1..Len(keep)}

----------------------------------------------------------------------------
(* Properties of the blending at the gate and of the derived metrics (SpecEst) *)

\* detection counts and area-spot counts whose coverages are compared with the
\* coverage of the state
GateCars == (0..MaxCars) \cup {40}
GateSpots == (0..MaxSpotsArea) \cup {20, 40, 60}

\* C11: weight_cars has no jump at the gate: it is 0 for coverage below
\* min_coverage and at coverage = min_coverage; above it, it is at most
\* blend_strength * (coverage - min_coverage) / (occupancy - min_coverage), and
\* equal to that up to coverage = occupancy; it is non-decreasing in coverage.
C11_Continuity ==
    (Estimated /\ ValidOccupancy) =>
        /\ RLeq(RInt(0), weight_cars)
        /\ RLeq(coverage, min_coverage) => weight_cars = RInt(0)
        /\ (RLess(min_coverage, coverage) /\ RLess(min_coverage, occupancy)) =>
              LET bound == RDiv(RMul(blend_strength, RSub(coverage, min_coverage)),
                                RSub(occupancy, min_coverage))
              IN  /\ RLeq(weight_cars, bound)
                  /\ RLeq(coverage, occupancy) => weight_cars = bound
        /\ \A n \in GateCars, s \in GateSpots :
              LET cov == CoverageOf(n, s)
                  w == WeightCars(n, cov, occupancy)
              IN  /\ RLeq(cov, coverage) => RLeq(w, weight_cars)
                  /\ RLeq(coverage, cov) => RLeq(weight_cars, w)

\* two areas of 60 area spots in one run: 2 cars are below the gate, 3 cars
\* are on it
C11_Witness ==
    /\ Estimated
    /\ ValidOccupancy
    /\ Len(results) = 2
    /\ results[1].n_cars = 2 /\ results[1].spots_from_area = 60
    /\ n_cars = 3 /\ spots_from_area = 60
    /\ coverage = min_coverage
    /\ reliability = "Blended"
    /\ weight_cars = RInt(0)

----------------------------------------------------------------------------
(* Order of the stages of detect_cars (Spec) *)

\* positions of the step op on i in the run so far
StagePos(op, i) == {p \in 1..Len(stages) : stages[p] = [op |-> op, i |-> i]}
NmsPos == {p \in 1..Len(stages) : stages[p].op = "nms"}
TilePos == {p \in 1..Len(stages) : stages[p].op \in {"predict", "shift"}}
\* indices of the boxes appended to out
Appended == {i \in 1..Len(all_boxes) : StagePos("append", i) # {}}
KeptSet == {keep[m] : m \in 1..Len(keep)}
ClaimedScale == IF upscale_small /\ (img_h < 2048 \/ img_w < 2048) THEN 2 ELSE 1

\* every tile is inferred and shifted before the deduplication, which is not
\* repeated; every collected box lies in the window of its tile in the upscaled
\* mosaic
TilesBeforeNms ==
    /\ \A p \in TilePos, q \in NmsPos : p < q
    /\ Cardinality(NmsPos) <= 1
    /\ NmsPos # {} =>
          {<<tiles[n].x0, tiles[n].y0>> : n \in 1..Len(tiles)}
              = Origins(W, step) \X Origins(H, step)
    /\ \A j \in 1..Len(all_boxes) :
          LET t == tiles[all_boxes[j].tile]
              b == all_boxes[j].box
          IN  /\ StagePos("shift", all_boxes[j].tile) # {}
              /\ t.x0 <= b[1] /\ b[3] <= t.x0 + t.pw
              /\ t.y0 <= b[2] /\ b[4] <= t.y0 + t.ph
              /\ b[3] <= img_w * ClaimedScale /\ b[4] <= img_h * ClaimedScale

\* C12 as claimed: all tiles are inferred and shifted before the one
\* deduplication of the run; deduplication and filtering work on the boxes in
\* upscaled space; the division by s comes after them, once for each returned
\* box.
C12_StagesAsClaimed ==
    (det # "idle") =>
        /\ scale = ClaimedScale
        /\ TilesBeforeNms
        /\ (det = "returned" /\ all_boxes # <<>>) => Cardinality(NmsPos) = 1
        /\ \A i \in Appended : PassesFilters(all_boxes[i], 1)
        /\ \A i \in Appended :
              \A p \in StagePos("size", i), q \in StagePos("divide", i) : p < q
        /\ \A i \in Appended :
              Cardinality(StagePos("divide", i)) = (IF scale = 1 THEN 0 ELSE 1)

\* C12 as amended: all tiles are inferred and shifted before the
\* deduplication, which runs once on the boxes in upscaled space when a tile
\* gave a box and not at all otherwise; then, for each kept box, the class
\* test, the division by s, the size and aspect tests on the divided box; the
\* division is applied once to each returned box.
C12_StageOrder ==
    (det # "idle") =>
        /\ scale = ClaimedScale
        /\ TilesBeforeNms
        /\ det = "filter" => (Cardinality(NmsPos) = 1 /\ keep = Nms(all_boxes))
        /\ det = "returned" =>
              /\ Cardinality(NmsPos) = (IF all_boxes = <<>> THEN 0 ELSE 1)
              /\ Appended = {i \in KeptSet : PassesFilters(all_boxes[i], scale)}
              /\ Len(detections) = Cardinality(Appended)
              /\ \A i \in Appended :
                    \E m \in 1..Len(detections) :
                        /\ detections[m].x1 = Trunc(Rat(all_boxes[i].box[1], scale))
                        /\ detections[m].y1 = Trunc(Rat(all_boxes[i].box[2], scale))
                        /\ detections[m].x2 = Trunc(Rat(all_boxes[i].box[3], scale))
                        /\ detections[m].y2 = Trunc(Rat(all_boxes[i].box[4], scale))
                        /\ detections[m].conf = all_boxes[i].score
        /\ det = "raised" => NmsPos = {}
        /\ \A i \in 1..Len(all_boxes) :
              /\ \A p \in NmsPos, q \in StagePos("class", i) : p < q
              /\ \A p \in StagePos("class", i), q \in StagePos("divide", i) : p < q
              /\ \A p \in StagePos("divide", i), q \in StagePos("size", i) : p < q
              /\ \A p \in StagePos("size", i), q \in StagePos("append", i) : p < q
              /\ StagePos("size", i) # {} =>
                    Cardinality(StagePos("divide", i)) = (IF scale = 1 THEN 0 ELSE 1)
              /\ Cardinality(StagePos("divide", i)) <= 1

\* a 512 x 512 image upscaled to 1024 x 1024, four tiles; a box 200 wide in
\* upscaled space is returned 100 wide
C12_Witness ==
    /\ det = "returned"
    /\ scale = 2
    /\ Len(tiles) = 4
    /\ Len(all_boxes) = 2
    /\ Cardinality(NmsPos) = 1
    /\ \E i \in Appended :
          /\ all_boxes[i].box[3] - all_boxes[i].box[1] = 200
          /\ ~PassesFilters(all_boxes[i], 1)
          /\ StagePos("divide", i) # {}
          /\ \E m \in 1..Len(detections) : detections[m].x2 - detections[m].x1 = 100

----------------------------------------------------------------------------
(* The filters of detect_cars (SpecFilter) *)

\* the plausibility test on the box d.box / s, s >= 1, in integers
Plausible(d, s) ==
    LET w == d.box[3] - d.box[1]
        h == d.box[4] - d.box[2]
    IN  /\ d.cls_name \in {"car", "van", "truck", "bus", "motor"}
        /\ 6 * s <= w /\ w <= 160 * s
        /\ 6 * s <= h /\ h <= 160 * s
        /\ w * h <= 160 * 160 * s * s
        /\ h <= 4 * w /\ w <= 4 * h

\* C13: the detections returned are the deduplicated boxes that pass the
\* plausibility test on the box in original pixel space (the upscaled box
\* divided by s): class in {car, van, truck, bus, motor}, width and height in
\* 6..160, area <= 160 * 160, width / height in 0.25..4; a box of another
\* class is dropped whatever its confidence; whether a box is returned depends
\* on that box alone.
C13_Plausibility ==
    (det = "returned" /\ ~det_failed) =>
        /\ Appended = {i \in KeptSet : Plausible(all_boxes[i], ClaimedScale)}
        /\ Len(detections) = Cardinality(Appended)
        /\ \A m \in 1..Len(detections) :
              /\ detections[m].cls_name \in {"car", "van", "truck", "bus", "motor"}
              /\ \E i \in Appended :
                    /\ detections[m].conf = all_boxes[i].score
                    /\ detections[m].cls_name = all_boxes[i].cls_name
                    /\ detections[m].x1 = all_boxes[i].box[1] \div ClaimedScale
                    /\ detections[m].x2 = all_boxes[i].box[3] \div ClaimedScale
                    /\ detections[m].y1 = all_boxes[i].box[2] \div ClaimedScale
                    /\ detections[m].y2 = all_boxes[i].box[4] \div ClaimedScale

\* at scale 2 a bus of 12 x 48 upscaled pixels (6 x 24, aspect 0.25) is
\* returned, and the pedestrian of confidence 0.9 beside it is not
C13_Witness ==
    /\ det = "returned"
    /\ scale = 2
    /\ Len(all_boxes) = 2
    /\ Len(keep) = 2
    /\ all_boxes[1].box = <<0, 0, 12, 48>> /\ all_boxes[1].cls_name = "bus"
    /\ all_boxes[2].cls_name = "pedestrian" /\ all_boxes[2].score = 90
    /\ Len(detections) = 1
    /\ detections[1].x2 = 6 /\ detections[1].y2 = 24

----------------------------------------------------------------------------
(* The derived metrics and the totals (SpecEst) *)

\* acc plus the sum of max(capacity, n_cars) over r[1..n]
RECURSIVE SumOver(_, _, _)
SumOver(r, n, acc) ==
    IF n = 0 THEN acc
    ELSE SumOver(r, n - 1, acc + Max(r[n].capacity, r[n].n_cars))

\* C14 as claimed: for every estimated area capacity = max(0, combined) is at
\* least occupied = n_cars, so occupied + free = capacity and the occupancy
\* fraction is at most 1; the totals satisfy total_cars + total_free =
\* total_capacity.
C14_CapacityCoversOccupied ==
    Estimated =>
        /\ capacity = Max(0, combined)
        /\ occupied = n_cars
        /\ capacity >= occupied
        /\ occupied + free_spots = capacity
        /\ total_cars + total_free = total_capacity

\* C14 as amended: capacity = max(0, combined) >= 0, occupied = n_cars, free =
\* max(0, capacity - occupied), so occupied + free = max(capacity, occupied);
\* capacity >= occupied holds whenever spots_from_area >= n_cars, and fails
\* in the Unreliable state exactly when spots_from_area = 0 with n_cars > 0;
\* total_cars + total_free is the sum of max(capacity, occupied) over the
\* areas, at least total_capacity, and equal to it exactly when every area
\* has capacity >= occupied.
C14_DerivedMetrics ==
    Estimated =>
        /\ capacity = Max(0, combined) /\ capacity >= 0
        /\ occupied = n_cars
        /\ free_spots >= 0
        /\ free_spots = (IF capacity >= occupied THEN capacity - occupied ELSE 0)
        /\ occupied + free_spots = Max(capacity, occupied)
        /\ spots_from_area >= n_cars =>
              (capacity >= occupied /\ occupied + free_spots = capacity)
        /\ reliability = "Unreliable" =>
              (capacity < occupied <=> (spots_from_area = 0 /\ n_cars > 0))
        /\ total_cars + total_free = SumOver(results, Len(results), 0)
        /\ total_cars + total_free >= total_capacity
        /\ (total_cars + total_free = total_capacity) <=>
              \A i \in 1..Len(results) : results[i].capacity >= results[i].n_cars

\* two areas: 2 cars on 1800 m2 (capacity 60), then 1 car on 10 m2 (no area
\* spot, capacity 0): 3 cars and 58 free spots against a capacity of 60
C14_Witness ==
    /\ Estimated
    /\ Len(results) = 2
    /\ results[1].n_cars = 2 /\ results[1].capacity = 60
    /\ n_cars = 1 /\ area_m2 = 10 /\ spots_from_area = 0
    /\ reliability = "Unreliable"
    /\ capacity = 0 /\ occupied = 1 /\ free_spots = 0
    /\ total_cars = 3 /\ total_free = 58 /\ total_capacity = 60

====
